---- MODULE Spec2Model ----
(***************************************************************************)
(* Model of the socketpair shim, src/src/shims/unix/socket.rs.             *)
(*                                                                         *)
(* State: the two SocketPair file descriptions made by each socketpair     *)
(* call, the two Buffers they share, the descriptor table, the caller's    *)
(* output storage sv, and the vector clocks of the guest threads.  Every   *)
(* handler of the FileDescription impl (read, write, close,                *)
(* get_epoll_ready_events) and the socketpair shim is one action.  The     *)
(* variable `last` records the call that was made last: its arguments,     *)
(* its return value, the readiness notification it sent and the state it   *)
(* started from.  The variable `hist` is a history of the byte streams and *)
(* of the terminal results seen; it is kept under SpecHist only.           *)
(*                                                                         *)
(* Spec makes one pair and runs every handler on it; SpecPairs makes       *)
(* several pairs and closes and polls them; SpecHist is Spec with the      *)
(* history kept and the data race detector off.                            *)
(***************************************************************************)
EXTENDS Integers, Sequences, FiniteSets, TLC

VARIABLES race_on,     \* is the data race detector running (release_clock is Some)
          fds,         \* this.machine.fds: descriptor number -> file description
          sv,          \* the caller's output storage: <<>> until written
          eps,         \* the SocketPair structs: name -> fields
          desc_live,   \* name -> does a strong FileDescriptionRef to it exist
          bufs,        \* the Rc<RefCell<Buffer>>: name -> [live, buf, clock, buf_has_writer]
          clocks,      \* thread -> its vector clock
          released,    \* history: buffer -> join of the clocks released into it
          hist,        \* history: bytes accepted and returned, terminal results seen
          last         \* the last call: arguments, result, notification, state before

vars == <<race_on, fds, sv, eps, desc_live, bufs, clocks, released, hist, last>>

----------------------------------------------------------------------------
(* Bounds of the model *)

\* The buffer capacity (the source uses 212992, "arbitrary" by its own comment).
MAX_SOCKETPAIR_BUFFER_CAPACITY == 2
\* Longest byte slice handed to read or write: requests up to the capacity,
\* so that a request can exceed the data or the space that is there.
MaxLen == MAX_SOCKETPAIR_BUFFER_CAPACITY
\* The threads release their clocks at most this often in all.
MaxReleases == 2
\* The socketpair calls that succeed, under SpecPairs.
MaxPairs == 2
\* The bytes accepted by all writes together, while the history is kept.
MaxSent == 3

Byte == {0, 1}
Threads == {1, 2}
Pairs == 1..MaxPairs
\* The objects made by the k-th successful call carry the call's number.
Name(k, base) == base \o "#" \o ToString(k)
EndpointsOf(k) == {Name(k, "socketpair_0"), Name(k, "socketpair_1")}
BuffersOf(k) == {Name(k, "buffer1"), Name(k, "buffer2")}
\* The SocketPair structs and the Buffers that have been made so far.
Endpoints == DOMAIN eps
Buffers == DOMAIN bufs
TargetOs == {"linux", "macos"}

----------------------------------------------------------------------------
(* libc constants named by eval_libc_i32 *)

AF_UNIX == 1
AF_LOCAL == 1
\* A domain that is not the unix family (the value libc gives AF_INET).
AF_INET == AF_UNIX + 1
SOCK_STREAM == 1
\* A type bit that is none of the flags (the value libc gives SOCK_DGRAM).
SOCK_DGRAM == SOCK_STREAM + 1
SOCK_NONBLOCK == 2048
SOCK_CLOEXEC == 524288

Domains == {AF_UNIX, AF_INET}
Types == {0, SOCK_STREAM, SOCK_DGRAM, SOCK_STREAM + SOCK_DGRAM,
          SOCK_NONBLOCK, SOCK_STREAM + SOCK_NONBLOCK,
          SOCK_CLOEXEC, SOCK_STREAM + SOCK_CLOEXEC,
          SOCK_STREAM + SOCK_NONBLOCK + SOCK_CLOEXEC,
          SOCK_DGRAM + SOCK_NONBLOCK}
Protocols == {0, 1}

----------------------------------------------------------------------------
(* Helpers *)

Min(a, b) == IF a <= b THEN a ELSE b
Max(a, b) == IF a >= b THEN a ELSE b

RECURSIVE BitAnd(_, _)
\* x & y on non-negative i32 values.
BitAnd(x, y) ==
    IF x = 0 \/ y = 0 THEN 0
    ELSE (x % 2) * (y % 2) + 2 * BitAnd(x \div 2, y \div 2)

\* x & !y : clear the bits of y in x.
BitClear(x, y) == x - BitAnd(x, y)

\* The byte slices handed to write: of every length up to n, alternating
\* bytes from either first byte (so that neighbours in a buffer differ).
Payloads(n) ==
    {[i \in 1..k |-> (s + i) % 2] : k \in 0..n, s \in Byte}

ZeroPayloads(n) == {[i \in 1..k |-> 0] : k \in 0..n}

\* VClock: thread -> timestamp.
VClockDefault == [t \in Threads |-> 0]
VClockJoin(a, b) == [t \in Threads |-> Max(a[t], b[t])]
VClockLeq(a, b) == \A t \in Threads : a[t] <= b[t]

----------------------------------------------------------------------------
(* The collaborators: data race detector, weak references *)

\* ecx.release_clock(): the thread's clock is incremented and handed out;
\* None when the detector is off.
release_clock_after(C, t) == [C EXCEPT ![t][t] = C[t][t] + 1]
release_clock(C, t) == release_clock_after(C, t)[t]

\* ecx.acquire_clock(clock): the thread's clock joins `clock`.
acquire_clock(C, t, clock) ==
    IF race_on THEN [C EXCEPT ![t] = VClockJoin(C[t], clock)] ELSE C

RECURSIVE ReleasesOf(_, _)
\* How often the threads of T have released: the sum of their own timestamps.
ReleasesOf(C, T) ==
    IF T = {} THEN 0
    ELSE LET t == CHOOSE u \in T : TRUE
         IN C[t][t] + ReleasesOf(C, T \ {t})

\* A faulty variant of writebuf_upgrade: the write link is strong, it always resolves.
writebuf_upgrade_strong(B, b) == TRUE

\* Weak<RefCell<Buffer>>::upgrade().is_some()
writebuf_upgrade(B, b) == B[b].live

\* A faulty variant of peer_fd_upgrade: the peer link is strong, it always resolves.
peer_fd_upgrade_strong(D, e) == TRUE

\* WeakFileDescriptionRef::upgrade().is_some()
peer_fd_upgrade(D, e) == D[e]

----------------------------------------------------------------------------
(* Values *)

\* A Buffer that does not exist any more (its last Rc dropped).
NoBuffer == [live |-> FALSE, buf |-> <<>>, clock |-> VClockDefault,
             buf_has_writer |-> FALSE]

\* A faulty variant of NewBuffer: the buffer starts without its writer flag.
NewBuffer_without_writer == [live |-> TRUE, buf |-> <<>>, clock |-> VClockDefault,
                             buf_has_writer |-> FALSE]

\* Buffer { buf: VecDeque::new(), clock: VClock::default(), buf_has_writer: true }
NewBuffer == [live |-> TRUE, buf |-> <<>>, clock |-> VClockDefault,
              buf_has_writer |-> TRUE]

\* EpollReadyEvents::new()
NoEvents == [epollin |-> FALSE, epollout |-> FALSE, epollrdhup |-> FALSE]

\* The history while it is not kept, and as it starts when it is.
NoHist == [on |-> FALSE,
           sent |-> [b \in {} |-> << >>],
           recvd |-> [b \in {} |-> << >>],
           eof |-> [e \in {} |-> FALSE],
           pipe |-> [e \in {} |-> FALSE]]
NewHist == [NoHist EXCEPT !.on = TRUE]

\* The history, when the k-th call has made its endpoints and buffers.
hist_of_call(H, k) ==
    IF H.on
    THEN [H EXCEPT
            !.sent = [b \in DOMAIN @ \cup BuffersOf(k) |->
                        IF b \in BuffersOf(k) THEN << >> ELSE @[b]],
            !.recvd = [b \in DOMAIN @ \cup BuffersOf(k) |->
                         IF b \in BuffersOf(k) THEN << >> ELSE @[b]],
            !.eof = [e \in DOMAIN @ \cup EndpointsOf(k) |->
                       IF e \in EndpointsOf(k) THEN FALSE ELSE @[e]],
            !.pipe = [e \in DOMAIN @ \cup EndpointsOf(k) |->
                        IF e \in EndpointsOf(k) THEN FALSE ELSE @[e]]]
    ELSE H

RECURSIVE SentIn(_, _)
\* The bytes accepted into the buffers of S so far.
SentIn(H, S) ==
    IF S = {} THEN 0
    ELSE LET b == CHOOSE c \in S : TRUE
         IN Len(H.sent[b]) + SentIn(H, S \ {b})

Snapshot == [fds |-> fds, sv |-> sv, eps |-> eps, desc_live |-> desc_live,
             bufs |-> bufs, clocks |-> clocks, released |-> released]

\* The record of a call, before its fields are filled in.
BlankCall == [op |-> "none", fd |-> "none", thread |-> 0, len |-> 0,
              bytes |-> <<>>, os |-> "", domain |-> 0, type_ |-> 0, protocol |-> 0,
              res |-> "none", msg |-> "", n |-> 0, data |-> <<>>,
              events |-> NoEvents, notif |-> <<>>, borrows |-> <<>>,
              after_drain |-> FALSE, seen_eof |-> FALSE, seen_pipe |-> FALSE,
              pre |-> Snapshot]

Created == Endpoints # {}
\* The socketpair calls that have succeeded.
PairsMade == Cardinality({k \in Pairs : EndpointsOf(k) \subseteq Endpoints})

----------------------------------------------------------------------------
(* SocketPair::get_epoll_ready_events, lines 47-77 *)

available_space(buffer) == MAX_SOCKETPAIR_BUFFER_CAPACITY - Len(buffer.buf)

\* A faulty variant of get_epoll_ready_events: a hang-up does not set epollin.
get_epoll_ready_events_no_edge(e, E, B, D) ==
    [epollin |-> B[E[e].readbuf].buf # <<>>,
     epollout |-> /\ writebuf_upgrade(B, E[e].writebuf)
                  /\ available_space(B[E[e].writebuf]) # 0,
     epollrdhup |-> ~peer_fd_upgrade(D, E[e].peer_fd)]

get_epoll_ready_events(e, E, B, D) ==
    LET readbuf == B[E[e].readbuf]
        epollin == readbuf.buf # <<>>
        epollout == /\ writebuf_upgrade(B, E[e].writebuf)
                    /\ available_space(B[E[e].writebuf]) # 0
        epollrdhup == ~peer_fd_upgrade(D, E[e].peer_fd)
    IN [epollin |-> epollin \/ epollrdhup,
        epollout |-> epollout,
        epollrdhup |-> epollrdhup]

\* A faulty variant of notify_peer: the peer is evaluated on the buffers as they
\* were when the handler was entered.
notify_peer_stale(e, E, B, D) ==
    IF peer_fd_upgrade(D, E[e].peer_fd)
    THEN << [fd |-> E[e].peer_fd,
             events |-> get_epoll_ready_events(E[e].peer_fd, E, bufs, D)] >>
    ELSE << >>

\* peer_fd.upgrade() and check_and_update_readiness: the notification sent to
\* the peer, as the list of the readiness evaluations it makes.
notify_peer(e, E, B, D) ==
    IF peer_fd_upgrade(D, E[e].peer_fd)
    THEN << [fd |-> E[e].peer_fd,
             events |-> get_epoll_ready_events(E[e].peer_fd, E, B, D)] >>
    ELSE << >>

----------------------------------------------------------------------------
(* RefCell<Buffer>: the borrows a handler takes and gives back, in order *)

Borrow(b) == [kind |-> "borrow", buf |-> b]
BorrowMut(b) == [kind |-> "borrow_mut", buf |-> b]
DropRef(b) == [kind |-> "drop", buf |-> b]
DropRefMut(b) == [kind |-> "drop_mut", buf |-> b]
\* The call of check_and_update_readiness on the peer.
Reevaluate(e) == [kind |-> "check_and_update_readiness", buf |-> e]

\* get_epoll_ready_events borrows readbuf for its whole body (line 52) and
\* writebuf inside the `if let` (line 61).
get_epoll_ready_events_borrows(e, E, B) ==
    << Borrow(E[e].readbuf) >>
    \o (IF writebuf_upgrade(B, E[e].writebuf)
        THEN << Borrow(E[e].writebuf), DropRef(E[e].writebuf) >>
        ELSE << >>)
    \o << DropRef(E[e].readbuf) >>

notify_peer_borrows(e, E, B, D) ==
    IF peer_fd_upgrade(D, E[e].peer_fd)
    THEN << Reevaluate(E[e].peer_fd) >>
         \o get_epoll_ready_events_borrows(E[e].peer_fd, E, B)
    ELSE << >>

\* s without its first x.
RemoveOne(s, x) ==
    LET i == CHOOSE j \in 1..Len(s) : s[j] = x
    IN SubSeq(s, 1, i - 1) \o SubSeq(s, i + 1, Len(s))

RECURSIVE already_borrowed(_, _, _)
\* Does the trace panic: RefCell::borrow panics while the cell is mutably
\* borrowed, RefCell::borrow_mut while it is borrowed at all.  `shared` lists
\* the Refs that are out, `excl` the cells with a RefMut out.
already_borrowed(trace, shared, excl) ==
    IF trace = << >> THEN FALSE
    ELSE LET ev == Head(trace)
             rest == Tail(trace)
         IN CASE ev.kind = "borrow" ->
                   \/ ev.buf \in excl
                   \/ already_borrowed(rest, shared \o << ev.buf >>, excl)
              [] ev.kind = "borrow_mut" ->
                   \/ ev.buf \in excl
                   \/ \E i \in 1..Len(shared) : shared[i] = ev.buf
                   \/ already_borrowed(rest, shared, excl \cup {ev.buf})
              [] ev.kind = "drop" ->
                   already_borrowed(rest, RemoveOne(shared, ev.buf), excl)
              [] ev.kind = "drop_mut" ->
                   already_borrowed(rest, shared, excl \ {ev.buf})
              [] OTHER -> already_borrowed(rest, shared, excl)

RECURSIVE held_at_reevaluation(_, _)
\* Is a RefMut out when check_and_update_readiness is called.
held_at_reevaluation(trace, excl) ==
    IF trace = << >> THEN FALSE
    ELSE LET ev == Head(trace)
             rest == Tail(trace)
         IN CASE ev.kind = "check_and_update_readiness" ->
                   excl # {} \/ held_at_reevaluation(rest, excl)
              [] ev.kind = "borrow_mut" ->
                   held_at_reevaluation(rest, excl \cup {ev.buf})
              [] ev.kind = "drop_mut" ->
                   held_at_reevaluation(rest, excl \ {ev.buf})
              [] OTHER -> held_at_reevaluation(rest, excl)

----------------------------------------------------------------------------
(* SocketPair::read, lines 99-160 *)

\* A faulty variant of read_result: an empty buffer with a writer is WouldBlock on a
\* blocking endpoint too.
read_result_always_nonblock(endpoint, readbuf, request_byte_size) ==
    IF request_byte_size = 0
    THEN [res |-> "Ok", n |-> 0, msg |-> "", path |-> "zero"]
    ELSE IF readbuf.buf = <<>>
    THEN IF ~readbuf.buf_has_writer
         THEN [res |-> "Ok", n |-> 0, msg |-> "", path |-> "eof"]
         ELSE [res |-> "WouldBlock", n |-> 0, msg |-> "", path |-> "fail"]
    ELSE [res |-> "Ok", n |-> Min(request_byte_size, Len(readbuf.buf)),
          msg |-> "", path |-> "transfer"]

\* A faulty variant of read_result: end-of-file is told to a request of one byte
\* only; a longer request is treated as if the writer were there.
read_result_eof_one_byte(endpoint, readbuf, request_byte_size) ==
    IF request_byte_size = 0
    THEN [res |-> "Ok", n |-> 0, msg |-> "", path |-> "zero"]
    ELSE IF readbuf.buf = <<>>
    THEN IF ~readbuf.buf_has_writer /\ request_byte_size = 1
         THEN [res |-> "Ok", n |-> 0, msg |-> "", path |-> "eof"]
         ELSE IF endpoint.is_nonblock
         THEN [res |-> "WouldBlock", n |-> 0, msg |-> "", path |-> "fail"]
         ELSE [res |-> "Unsupported", n |-> 0,
               msg |-> "socketpair read: blocking isn't supported yet",
               path |-> "fail"]
    ELSE [res |-> "Ok", n |-> Min(request_byte_size, Len(readbuf.buf)),
          msg |-> "", path |-> "transfer"]

\* The return value of read and the branch that produced it.
read_result(endpoint, readbuf, request_byte_size) ==
    IF request_byte_size = 0
    THEN [res |-> "Ok", n |-> 0, msg |-> "", path |-> "zero"]
    ELSE IF readbuf.buf = <<>>
    THEN IF ~readbuf.buf_has_writer
         THEN [res |-> "Ok", n |-> 0, msg |-> "", path |-> "eof"]
         ELSE IF endpoint.is_nonblock
         THEN [res |-> "WouldBlock", n |-> 0, msg |-> "", path |-> "fail"]
         ELSE [res |-> "Unsupported", n |-> 0,
               msg |-> "socketpair read: blocking isn't supported yet",
               path |-> "fail"]
    ELSE [res |-> "Ok", n |-> Min(request_byte_size, Len(readbuf.buf)),
          msg |-> "", path |-> "transfer"]

\* A faulty variant of vecdeque_read_data: the newest bytes are copied out.
vecdeque_read_data_newest(buf, n) == SubSeq(buf, Len(buf) - n + 1, Len(buf))

\* A faulty variant of vecdeque_read_rest: the bytes copied out stay in the queue.
vecdeque_read_rest_keeps(buf, n) == buf

\* VecDeque::read: the bytes copied out, and what stays in the queue.
vecdeque_read_data(buf, n) == SubSeq(buf, 1, n)
vecdeque_read_rest(buf, n) == SubSeq(buf, n + 1, Len(buf))

\* A faulty variant of read_borrows: readbuf is not dropped before the peer is
\* notified.
read_borrows_held(e, E, B, D, transfer) ==
    << BorrowMut(E[e].readbuf) >>
    \o (IF transfer THEN notify_peer_borrows(e, E, B, D) ELSE << >>)
    \o << DropRefMut(E[e].readbuf) >>

\* readbuf is borrowed mutably at line 107; it is dropped at line 146 before
\* the peer is notified, and at the return on the other paths.
read_borrows(e, E, B, D, transfer) ==
    << BorrowMut(E[e].readbuf), DropRefMut(E[e].readbuf) >>
    \o (IF transfer THEN notify_peer_borrows(e, E, B, D) ELSE << >>)

read(e, t, request_byte_size) ==
    /\ desc_live[e]
    /\ LET rb == eps[e].readbuf
           readbuf == bufs[rb]
           r == read_result(eps[e], readbuf, request_byte_size)
           transfer == r.path = "transfer"
           data == IF transfer THEN vecdeque_read_data(readbuf.buf, r.n)
                   ELSE << >>
           bufs1 == IF transfer
                    THEN [bufs EXCEPT ![rb].buf = vecdeque_read_rest(readbuf.buf, r.n)]
                    ELSE bufs
           borrows == read_borrows(e, eps, bufs1, desc_live, transfer)
       IN /\ bufs' = bufs1
          /\ clocks' = IF transfer THEN acquire_clock(clocks, t, readbuf.clock)
                       ELSE clocks
          /\ hist' = IF hist.on
                     THEN [hist EXCEPT !.recvd[rb] = @ \o data,
                                       !.eof[e] = @ \/ r.path = "eof"]
                     ELSE hist
          /\ last' = [BlankCall EXCEPT
                        !.op = "read", !.fd = e, !.thread = t,
                        !.len = request_byte_size,
                        !.res = r.res, !.n = r.n, !.msg = r.msg,
                        !.data = data,
                        !.seen_eof = hist.on /\ hist.eof[e],
                        !.notif = IF transfer
                                  THEN notify_peer(e, eps, bufs1, desc_live)
                                  ELSE << >>,
                        !.borrows = borrows,
                        !.after_drain = /\ last.op = "read" /\ last.fd = e
                                        /\ last.n >= 1
                                        /\ readbuf.buf = << >>]
    /\ UNCHANGED <<race_on, fds, sv, eps, desc_live, released>>

----------------------------------------------------------------------------
(* SocketPair::write, lines 162-209 *)

\* A faulty variant of actual_write_size: the request is not cut to the space.
actual_write_size_uncut(write_size, available) == write_size

actual_write_size(write_size, available) == Min(write_size, available)

\* A faulty variant of write_result: the length is not looked at first.
write_result_no_zero(endpoint, B, write_size) ==
    IF ~writebuf_upgrade(B, endpoint.writebuf)
    THEN [res |-> "BrokenPipe", n |-> 0, msg |-> "", path |-> "fail"]
    ELSE IF available_space(B[endpoint.writebuf]) = 0
    THEN IF endpoint.is_nonblock
         THEN [res |-> "WouldBlock", n |-> 0, msg |-> "", path |-> "fail"]
         ELSE [res |-> "Unsupported", n |-> 0,
               msg |-> "socketpair write: blocking isn't supported yet",
               path |-> "fail"]
    ELSE [res |-> "Ok",
          n |-> actual_write_size(write_size,
                                  available_space(B[endpoint.writebuf])),
          msg |-> "", path |-> IF write_size = 0 THEN "zero" ELSE "transfer"]

\* A faulty variant of write_result: on a non-blocking endpoint the full buffer is
\* found after the clock is joined and the (empty) prefix is appended.
write_result_join_first(endpoint, B, write_size) ==
    IF write_size = 0
    THEN [res |-> "Ok", n |-> 0, msg |-> "", path |-> "zero"]
    ELSE IF ~writebuf_upgrade(B, endpoint.writebuf)
    THEN [res |-> "BrokenPipe", n |-> 0, msg |-> "", path |-> "fail"]
    ELSE IF available_space(B[endpoint.writebuf]) = 0
    THEN IF endpoint.is_nonblock
         THEN [res |-> "WouldBlock", n |-> 0, msg |-> "", path |-> "transfer"]
         ELSE [res |-> "Unsupported", n |-> 0,
               msg |-> "socketpair write: blocking isn't supported yet",
               path |-> "fail"]
    ELSE [res |-> "Ok",
          n |-> actual_write_size(write_size,
                                  available_space(B[endpoint.writebuf])),
          msg |-> "", path |-> "transfer"]

\* The return value of write and the branch that produced it.
write_result(endpoint, B, write_size) ==
    IF write_size = 0
    THEN [res |-> "Ok", n |-> 0, msg |-> "", path |-> "zero"]
    ELSE IF ~writebuf_upgrade(B, endpoint.writebuf)
    THEN [res |-> "BrokenPipe", n |-> 0, msg |-> "", path |-> "fail"]
    ELSE IF available_space(B[endpoint.writebuf]) = 0
    THEN IF endpoint.is_nonblock
         THEN [res |-> "WouldBlock", n |-> 0, msg |-> "", path |-> "fail"]
         ELSE [res |-> "Unsupported", n |-> 0,
               msg |-> "socketpair write: blocking isn't supported yet",
               path |-> "fail"]
    ELSE [res |-> "Ok",
          n |-> actual_write_size(write_size,
                                  available_space(B[endpoint.writebuf])),
          msg |-> "", path |-> "transfer"]

\* A faulty variant of writebuf_clock_join: the clock is overwritten, not joined.
writebuf_clock_overwrite(clock, C, t) ==
    IF race_on THEN release_clock(C, t) ELSE clock

\* writebuf.clock.join(clock), for the clock release_clock hands out.
writebuf_clock_join(clock, C, t) ==
    IF race_on THEN VClockJoin(clock, release_clock(C, t)) ELSE clock

\* A faulty variant of buf_extend: the bytes are put at the head.
buf_extend_front(buf, bytes, n) == SubSeq(bytes, 1, n) \o buf

\* writebuf.buf.extend(&bytes[..actual_write_size])
buf_extend(buf, bytes, n) == buf \o SubSeq(bytes, 1, n)

\* writebuf is borrowed mutably at line 181, after the upgrade; it is dropped
\* at line 203 before the peer is notified, and at the return when the buffer
\* is full.
write_borrows(e, E, B, D, r) ==
    IF r.path = "zero" \/ r.res = "BrokenPipe" THEN << >>
    ELSE << BorrowMut(E[e].writebuf), DropRefMut(E[e].writebuf) >>
         \o (IF r.path = "transfer" THEN notify_peer_borrows(e, E, B, D)
             ELSE << >>)

write(e, t, bytes) ==
    /\ desc_live[e]
    /\ LET wb == eps[e].writebuf
           r == write_result(eps[e], bufs, Len(bytes))
           transfer == r.path = "transfer"
           bufs1 == IF transfer
                    THEN [bufs EXCEPT
                           ![wb].clock = writebuf_clock_join(@, clocks, t),
                           ![wb].buf = buf_extend(@, bytes, r.n)]
                    ELSE bufs
           borrows == write_borrows(e, eps, bufs1, desc_live, r)
       IN /\ transfer /\ race_on => ReleasesOf(clocks, Threads) < MaxReleases
          /\ transfer /\ hist.on => SentIn(hist, Buffers) + r.n <= MaxSent
          /\ hist' = IF hist.on
                     THEN [hist EXCEPT
                             !.sent[wb] = IF transfer
                                          THEN @ \o SubSeq(bytes, 1, r.n) ELSE @,
                             !.pipe[e] = @ \/ r.res = "BrokenPipe"]
                     ELSE hist
          /\ bufs' = bufs1
          /\ clocks' = IF transfer /\ race_on
                       THEN release_clock_after(clocks, t) ELSE clocks
          /\ released' = IF transfer /\ race_on
                         THEN [released EXCEPT ![wb] =
                                 [u \in Threads |->
                                    IF release_clock(clocks, t)[u] > @[u]
                                    THEN release_clock(clocks, t)[u] ELSE @[u]]]
                         ELSE released
          /\ last' = [BlankCall EXCEPT
                        !.op = "write", !.fd = e, !.thread = t,
                        !.bytes = bytes,
                        !.res = r.res, !.n = r.n, !.msg = r.msg,
                        !.seen_pipe = hist.on /\ hist.pipe[e],
                        !.notif = IF transfer
                                  THEN notify_peer(e, eps, bufs1, desc_live)
                                  ELSE << >>,
                        !.borrows = borrows]
    /\ UNCHANGED <<race_on, fds, sv, eps, desc_live>>

----------------------------------------------------------------------------
(* SocketPair::close, lines 79-97 *)

\* A faulty variant of close_writebuf: the bytes the peer has not read are
\* thrown away.
close_writebuf_flush(B, wb) ==
    IF writebuf_upgrade(B, wb)
    THEN [B EXCEPT ![wb].buf_has_writer = FALSE, ![wb].buf = << >>]
    ELSE B

\* A faulty variant of close_writebuf: the writer flag is left set.
close_writebuf_forgotten(B, wb) == B

\* writebuf.borrow_mut().buf_has_writer = false, when the upgrade succeeds.
close_writebuf(B, wb) ==
    IF writebuf_upgrade(B, wb) THEN [B EXCEPT ![wb].buf_has_writer = FALSE]
    ELSE B

\* The last strong reference to the description is consumed before close runs
\* (close takes self: Box<Self>), so the peer's peer_fd no longer upgrades while
\* the struct, and with it readbuf, lives until close returns.
\* The RefMut of line 87 is a temporary: it is dropped at the end of the
\* statement, before the peer is notified.
close_borrows(e, E, B, D) ==
    (IF writebuf_upgrade(B, E[e].writebuf)
     THEN << BorrowMut(E[e].writebuf), DropRefMut(E[e].writebuf) >>
     ELSE << >>)
    \o notify_peer_borrows(e, E, B, D)

close(e) ==
    /\ desc_live[e]
    /\ LET D1 == [desc_live EXCEPT ![e] = FALSE]
           B1 == close_writebuf(bufs, eps[e].writebuf)
           B2 == [B1 EXCEPT ![eps[e].readbuf] = NoBuffer]
           borrows == close_borrows(e, eps, B1, D1)
       IN /\ desc_live' = D1
          /\ bufs' = B2
          /\ released' = [released EXCEPT ![eps[e].readbuf] = VClockDefault]
          /\ fds' = [n \in {m \in DOMAIN fds : fds[m] # e} |-> fds[n]]
          /\ last' = [BlankCall EXCEPT
                        !.op = "close", !.fd = e, !.res = "Ok",
                        !.notif = notify_peer(e, eps, B1, D1),
                        !.borrows = borrows]
    /\ UNCHANGED <<race_on, sv, eps, clocks, hist>>

----------------------------------------------------------------------------
(* The readiness query, made by the polling subsystem *)

readiness(e) ==
    /\ desc_live[e]
    /\ last' = [BlankCall EXCEPT
                  !.op = "readiness", !.fd = e, !.res = "Ok",
                  !.events = get_epoll_ready_events(e, eps, bufs, desc_live),
                  !.borrows = get_epoll_ready_events_borrows(e, eps, bufs)]
    /\ UNCHANGED <<race_on, fds, sv, eps, desc_live, bufs, clocks,
                   released, hist>>

----------------------------------------------------------------------------
(* EvalContextExt::socketpair, lines 216-320 *)

\* A faulty variant of socketpair_flags: SOCK_NONBLOCK is removed from type_
\* and not remembered.
socketpair_flags_nonblock_lost(type_, os) ==
    LET t1 == IF BitAnd(type_, SOCK_STREAM) = SOCK_STREAM
              THEN BitClear(type_, SOCK_STREAM) ELSE type_
        t2 == IF os = "linux" /\ BitAnd(t1, SOCK_NONBLOCK) = SOCK_NONBLOCK
              THEN BitClear(t1, SOCK_NONBLOCK) ELSE t1
        t3 == IF os = "linux" /\ BitAnd(t2, SOCK_CLOEXEC) = SOCK_CLOEXEC
              THEN BitClear(t2, SOCK_CLOEXEC) ELSE t2
    IN [type_ |-> t3, is_sock_nonblock |-> FALSE]

\* Lines 230-247: the flags are parsed and removed from type_.
socketpair_flags(type_, os) ==
    LET t1 == IF BitAnd(type_, SOCK_STREAM) = SOCK_STREAM
              THEN BitClear(type_, SOCK_STREAM) ELSE type_
        nonblock == os = "linux" /\ BitAnd(t1, SOCK_NONBLOCK) = SOCK_NONBLOCK
        t2 == IF nonblock THEN BitClear(t1, SOCK_NONBLOCK) ELSE t1
        t3 == IF os = "linux" /\ BitAnd(t2, SOCK_CLOEXEC) = SOCK_CLOEXEC
              THEN BitClear(t2, SOCK_CLOEXEC) ELSE t2
    IN [type_ |-> t3, is_sock_nonblock |-> nonblock]

\* A faulty variant of socketpair_unsupported: the protocol is not checked.
socketpair_unsupported_no_protocol(domain, type_, protocol) ==
    IF domain # AF_UNIX /\ domain # AF_LOCAL THEN "domain"
    ELSE IF type_ # 0 THEN "type"
    ELSE ""

\* Lines 249-269: "" when the input is supported, else which input is not.
socketpair_unsupported(domain, type_, protocol) ==
    IF domain # AF_UNIX /\ domain # AF_LOCAL THEN "domain"
    ELSE IF type_ # 0 THEN "type"
    ELSE IF protocol # 0 THEN "protocol"
    ELSE ""

\* A faulty variant of socketpair_structs: every call wires its structs to the
\* buffers of the first call.
socketpair_structs_shared(k, is_sock_nonblock) ==
    [e \in EndpointsOf(k) |->
       IF e = Name(k, "socketpair_0")
       THEN [writebuf |-> Name(1, "buffer1"), readbuf |-> Name(1, "buffer2"),
             peer_fd |-> Name(k, "socketpair_1"),
             is_nonblock |-> is_sock_nonblock]
       ELSE [writebuf |-> Name(1, "buffer2"), readbuf |-> Name(1, "buffer1"),
             peer_fd |-> Name(k, "socketpair_0"),
             is_nonblock |-> is_sock_nonblock]]

\* Lines 283-294 and 308-310: the two structs of the k-th pair, cross-wired.
socketpair_structs(k, is_sock_nonblock) ==
    [e \in EndpointsOf(k) |->
       IF e = Name(k, "socketpair_0")
       THEN [writebuf |-> Name(k, "buffer1"), readbuf |-> Name(k, "buffer2"),
             peer_fd |-> Name(k, "socketpair_1"),
             is_nonblock |-> is_sock_nonblock]
       ELSE [writebuf |-> Name(k, "buffer2"), readbuf |-> Name(k, "buffer1"),
             peer_fd |-> Name(k, "socketpair_0"),
             is_nonblock |-> is_sock_nonblock]]

\* FdTable::insert_new: the lowest descriptor number that is free.
insert_new(F, desc) ==
    LET fd == CHOOSE n \in 0..Cardinality(DOMAIN F) :
                 n \notin DOMAIN F /\ \A m \in 0..(n - 1) : m \in DOMAIN F
    IN [fd |-> fd,
        fds |-> [n \in DOMAIN F \cup {fd} |-> IF n = fd THEN desc ELSE F[n]]]

\* The shim, when k - 1 calls have succeeded before.  target_os is
\* this.tcx.sess.target.os, which the shim reads at line 239.
socketpair_call(k, target_os, domain, type_, protocol) ==
    /\ LET flags == socketpair_flags(type_, target_os)
           unsup == socketpair_unsupported(domain, flags.type_, protocol)
           structs == socketpair_structs(k, flags.is_sock_nonblock)
           sv0 == insert_new(fds, Name(k, "socketpair_0"))
           sv1 == insert_new(sv0.fds, Name(k, "socketpair_1"))
       IN IF unsup # ""
          THEN /\ last' = [BlankCall EXCEPT
                             !.op = "socketpair", !.os = target_os,
                             !.domain = domain,
                             !.type_ = type_, !.protocol = protocol,
                             !.res = "Unsupported", !.msg = unsup]
               /\ UNCHANGED <<fds, sv, eps, desc_live, bufs, released, hist>>
          ELSE /\ bufs' = [b \in Buffers \cup BuffersOf(k) |->
                               IF b \in BuffersOf(k) THEN NewBuffer ELSE bufs[b]]
               /\ eps' = [e \in Endpoints \cup EndpointsOf(k) |->
                              IF e \in EndpointsOf(k) THEN structs[e] ELSE eps[e]]
               /\ desc_live' = [e \in Endpoints \cup EndpointsOf(k) |->
                                    e \in EndpointsOf(k) \/ desc_live[e]]
               /\ released' = [b \in Buffers \cup BuffersOf(k) |->
                                   IF b \in BuffersOf(k) THEN VClockDefault
                                   ELSE released[b]]
               /\ hist' = hist_of_call(hist, k)
               /\ fds' = sv1.fds
               /\ sv' = <<sv0.fd, sv1.fd>>
               /\ last' = [BlankCall EXCEPT
                             !.op = "socketpair", !.os = target_os,
                             !.domain = domain,
                             !.type_ = type_, !.protocol = protocol,
                             !.res = "Ok"]
    /\ UNCHANGED <<race_on, clocks>>

\* The one call that Spec makes.
socketpair(target_os, domain, type_, protocol) ==
    /\ ~Created
    /\ socketpair_call(1, target_os, domain, type_, protocol)

\* The calls that SpecPairs makes, one after the other.
socketpair_next(target_os, domain, type_, protocol) ==
    /\ PairsMade < MaxPairs
    /\ socketpair_call(PairsMade + 1, target_os, domain, type_, protocol)

----------------------------------------------------------------------------
(* The machine *)

Init ==
    /\ race_on \in BOOLEAN
    /\ fds = [n \in {} |-> ""]
    /\ sv = << >>
    /\ eps = [e \in {} |-> ""]
    /\ desc_live = [e \in {} |-> FALSE]
    /\ bufs = [b \in {} |-> NoBuffer]
    /\ clocks = [t \in Threads |-> VClockDefault]
    /\ released = [b \in {} |-> VClockDefault]
    /\ hist = NoHist
    /\ last = BlankCall

\* The thread that makes a call matters to the clocks alone: without the
\* detector one thread stands for all.
ActiveThreads == IF race_on THEN Threads ELSE {1}

\* The clocks do not depend on the values of the bytes: with the detector on
\* the slices written are of every length, of one byte value.
WriteInputs == IF race_on THEN ZeroPayloads(MaxLen) ELSE Payloads(MaxLen)

Next ==
    \/ \E os \in TargetOs, d \in Domains, ty \in Types, p \in Protocols :
          socketpair(os, d, ty, p)
    \/ \E e \in Endpoints, t \in ActiveThreads, n \in 0..MaxLen : read(e, t, n)
    \/ \E e \in Endpoints, t \in ActiveThreads, bytes \in WriteInputs :
          write(e, t, bytes)
    \/ \E e \in Endpoints : close(e)
    \/ \E e \in Endpoints : readiness(e)

Spec == Init /\ [][Next]_vars

\* Several pairs: made, polled and closed.
NextPairs ==
    \/ \E os \in TargetOs, d \in Domains, ty \in Types, p \in Protocols :
          socketpair_next(os, d, ty, p)
    \/ \E e \in Endpoints : close(e)
    \/ \E e \in Endpoints : readiness(e)

SpecPairs == Init /\ [][NextPairs]_vars

\* One pair, with the history kept and the detector off.
InitHist ==
    /\ race_on = FALSE
    /\ fds = [n \in {} |-> ""]
    /\ sv = << >>
    /\ eps = [e \in {} |-> ""]
    /\ desc_live = [e \in {} |-> FALSE]
    /\ bufs = [b \in {} |-> NoBuffer]
    /\ clocks = [t \in Threads |-> VClockDefault]
    /\ released = [b \in {} |-> VClockDefault]
    /\ hist = NewHist
    /\ last = BlankCall

SpecHist == InitHist /\ [][Next]_vars

----------------------------------------------------------------------------
(* What the claims speak of *)

\* The endpoint of the last call, as it was before the call.
LastEndpoint == last.pre.eps[last.fd]
\* The buffer the last call's endpoint reads from, before and after the call.
OwnBefore == last.pre.bufs[LastEndpoint.readbuf]
OwnAfter == bufs[LastEndpoint.readbuf]
\* The buffer the last call's endpoint writes into, before and after the call.
TargetBefore == last.pre.bufs[LastEndpoint.writebuf]
TargetAfter == bufs[LastEndpoint.writebuf]
\* The endpoint that writes into buffer b, and the one that reads from it.
WriterOf(b) == CHOOSE e \in Endpoints : last.pre.eps[e].writebuf = b
ReaderOf(b) == CHOOSE e \in Endpoints : last.pre.eps[e].readbuf = b

LastRead == last.op = "read" /\ last.len > 0
LastWrite == last.op = "write" /\ last.bytes # << >>

\* The call changed no buffer, clock, flag or table.
NothingChanged ==
    /\ bufs = last.pre.bufs
    /\ clocks = last.pre.clocks
    /\ desc_live = last.pre.desc_live
    /\ eps = last.pre.eps
    /\ fds = last.pre.fds
    /\ sv = last.pre.sv

----------------------------------------------------------------------------
(* C1 *)

\* C1: no buffer is ever longer than the capacity; and a non-empty write whose
\* target buffer resolves and is exactly full appends nothing and fails, with
\* WouldBlock on a non-blocking endpoint and with the "unsupported" failure
\* on a blocking one.
C1_CapacityInvariant ==
    /\ \A b \in Buffers : Len(bufs[b].buf) <= MAX_SOCKETPAIR_BUFFER_CAPACITY
    /\ (/\ LastWrite
        /\ TargetBefore.live
        /\ Len(TargetBefore.buf) = MAX_SOCKETPAIR_BUFFER_CAPACITY)
       => /\ bufs = last.pre.bufs
          /\ last.n = 0
          /\ LastEndpoint.is_nonblock => last.res = "WouldBlock"
          /\ ~LastEndpoint.is_nonblock
               => /\ last.res = "Unsupported"
                  /\ last.msg = "socketpair write: blocking isn't supported yet"

\* A non-blocking write onto a full buffer, answered WouldBlock.
C1_Witness ==
    /\ LastWrite
    /\ TargetBefore.live
    /\ Len(TargetBefore.buf) = MAX_SOCKETPAIR_BUFFER_CAPACITY
    /\ LastEndpoint.is_nonblock
    /\ last.res = "WouldBlock"

----------------------------------------------------------------------------
(* C2 *)

\* C2: once the endpoint that writes into a buffer is closed, a read with
\* max_len > 0 on the peer returns at least one byte while the buffer holds
\* data, and returns success with 0 when the buffer is empty, on blocking and
\* non-blocking endpoints alike.
C2_EofLaw ==
    (/\ LastRead
     /\ ~last.pre.desc_live[WriterOf(LastEndpoint.readbuf)])
    => /\ last.res = "Ok"
       /\ OwnBefore.buf # << >> => last.n >= 1
       /\ OwnBefore.buf = << >> => last.n = 0
       /\ last.n = 0 => OwnBefore.buf = << >>

\* The writer is closed, a read has drained what it left, and the next read
\* on the blocking endpoint returns 0.
C2_Witness ==
    /\ LastRead
    /\ ~last.pre.desc_live[WriterOf(LastEndpoint.readbuf)]
    /\ last.after_drain
    /\ ~LastEndpoint.is_nonblock
    /\ last.res = "Ok"
    /\ last.n = 0

----------------------------------------------------------------------------
(* C3 *)

\* C3 as stated: once the endpoint that reads a buffer is closed, every write
\* on its peer returns BrokenPipe and transfers nothing.
C3_BrokenPipeEveryWrite ==
    (/\ last.op = "write"
     /\ ~last.pre.desc_live[ReaderOf(LastEndpoint.writebuf)])
    => /\ last.res = "BrokenPipe"
       /\ last.n = 0
       /\ bufs = last.pre.bufs

\* C3, amended: once the endpoint that reads a buffer is closed, every write
\* of at least one byte on its peer returns BrokenPipe and transfers nothing,
\* on blocking and non-blocking endpoints, whatever the buffers held.
C3_BrokenPipeLaw ==
    (/\ LastWrite
     /\ ~last.pre.desc_live[ReaderOf(LastEndpoint.writebuf)])
    => /\ last.res = "BrokenPipe"
       /\ last.n = 0
       /\ bufs = last.pre.bufs

\* A blocking endpoint that still holds unread data writes to its closed peer.
C3_Witness ==
    /\ LastWrite
    /\ ~last.pre.desc_live[ReaderOf(LastEndpoint.writebuf)]
    /\ ~LastEndpoint.is_nonblock
    /\ OwnBefore.buf # << >>
    /\ last.res = "BrokenPipe"

----------------------------------------------------------------------------
(* C4 *)

\* C4: a non-empty write whose target buffer resolves and has available =
\* capacity - length > 0 appends exactly the first min(len(bytes), available)
\* bytes to the tail of the target buffer and returns that count as success.
C4_PartialTransfer ==
    (/\ LastWrite
     /\ TargetBefore.live
     /\ Len(TargetBefore.buf) < MAX_SOCKETPAIR_BUFFER_CAPACITY)
    => LET available == MAX_SOCKETPAIR_BUFFER_CAPACITY - Len(TargetBefore.buf)
           count == IF Len(last.bytes) > available THEN available
                    ELSE Len(last.bytes)
       IN /\ last.res = "Ok"
          /\ last.n = count
          /\ TargetAfter.buf
               = TargetBefore.buf \o [i \in 1..count |-> last.bytes[i]]

\* A write of more bytes than the space left in a buffer that holds data.
C4_Witness ==
    /\ LastWrite
    /\ TargetBefore.live
    /\ TargetBefore.buf # << >>
    /\ Len(TargetBefore.buf) < MAX_SOCKETPAIR_BUFFER_CAPACITY
    /\ Len(last.bytes) > MAX_SOCKETPAIR_BUFFER_CAPACITY - Len(TargetBefore.buf)
    /\ last.res = "Ok"
    /\ last.n = MAX_SOCKETPAIR_BUFFER_CAPACITY - Len(TargetBefore.buf)

----------------------------------------------------------------------------
(* C5 *)

----------------------------------------------------------------------------
(* C6 *)

\* C6: read with max_len = 0 and write of no bytes return success with count
\* 0 in every state: buffer empty, holding data or full, writer live or
\* closed, peer live or destroyed, endpoint blocking or not.
C6_ZeroLength ==
    /\ (last.op = "read" /\ last.len = 0) => (last.res = "Ok" /\ last.n = 0)
    /\ (last.op = "write" /\ last.bytes = << >>)
       => (last.res = "Ok" /\ last.n = 0)

\* A write of no bytes by an endpoint whose peer is destroyed.
C6_Witness ==
    /\ last.op = "write"
    /\ last.bytes = << >>
    /\ ~TargetBefore.live
    /\ last.res = "Ok"
    /\ last.n = 0

----------------------------------------------------------------------------
(* C7 *)

\* The three read-side cases of endpoint e.
HasData(e) == bufs[eps[e].readbuf].buf # << >>
EmptyWithWriter(e) ==
    bufs[eps[e].readbuf].buf = << >> /\ bufs[eps[e].readbuf].buf_has_writer
EmptyNoWriter(e) ==
    bufs[eps[e].readbuf].buf = << >> /\ ~bufs[eps[e].readbuf].buf_has_writer

\* C7: for every endpoint exactly one of {buffer holds data}, {empty and
\* has_live_writer}, {empty and no live writer} holds, and a read with
\* max_len > 0 is answered by the case it found: data (count >= 1) in the
\* first, WouldBlock (non-blocking) or the "unsupported" failure (blocking) in
\* the second, success with 0 in the third; every read returns at once.
C7_ReadStateMachine ==
    /\ \A e \in Endpoints :
         desc_live[e]
         => /\ HasData(e) \/ EmptyWithWriter(e) \/ EmptyNoWriter(e)
            /\ ~(HasData(e) /\ EmptyWithWriter(e))
            /\ ~(HasData(e) /\ EmptyNoWriter(e))
            /\ ~(EmptyWithWriter(e) /\ EmptyNoWriter(e))
    /\ LastRead
       => /\ last.res \in {"Ok", "WouldBlock", "Unsupported"}
          /\ OwnBefore.buf # << >> => (last.res = "Ok" /\ last.n >= 1)
          /\ (OwnBefore.buf = << >> /\ OwnBefore.buf_has_writer)
             => /\ last.n = 0
                /\ LastEndpoint.is_nonblock => last.res = "WouldBlock"
                /\ ~LastEndpoint.is_nonblock
                     => /\ last.res = "Unsupported"
                        /\ last.msg
                             = "socketpair read: blocking isn't supported yet"
          /\ (OwnBefore.buf = << >> /\ ~OwnBefore.buf_has_writer)
             => (last.res = "Ok" /\ last.n = 0)

\* A blocking endpoint reads an empty buffer whose writer is live.
C7_Witness ==
    /\ LastRead
    /\ OwnBefore.buf = << >>
    /\ OwnBefore.buf_has_writer
    /\ ~LastEndpoint.is_nonblock
    /\ last.res = "Unsupported"

----------------------------------------------------------------------------
(* C8 *)

\* C8: readiness reports writable iff write_target resolves and that buffer is
\* shorter than the capacity, peer_half_closed iff the peer reference does
\* not resolve, readable iff the own buffer holds data or peer_half_closed;
\* and the query changes no buffer, clock or flag.
C8_Readiness ==
    last.op = "readiness"
    => /\ last.events.epollout
            = (/\ TargetBefore.live
               /\ Len(TargetBefore.buf) < MAX_SOCKETPAIR_BUFFER_CAPACITY)
       /\ last.events.epollrdhup = ~last.pre.desc_live[LastEndpoint.peer_fd]
       /\ last.events.epollin
            = (OwnBefore.buf # << >> \/ ~last.pre.desc_live[LastEndpoint.peer_fd])
       /\ NothingChanged
       /\ released = last.pre.released

\* The peer is destroyed and the own buffer is empty: readable and
\* peer_half_closed are both reported.
C8_Witness ==
    /\ last.op = "readiness"
    /\ ~last.pre.desc_live[LastEndpoint.peer_fd]
    /\ OwnBefore.buf = << >>
    /\ last.events.epollin
    /\ last.events.epollrdhup
    /\ ~last.events.epollout

----------------------------------------------------------------------------
(* C9 *)

\* C9: with the detector on, a successful non-empty write joins the clock the
\* writer released into the target buffer's clock; the clock of a buffer only
\* grows while the buffer exists, also when it drains; and after a read that
\* returns at least one byte the reader's clock dominates the buffer's clock
\* and the release of every earlier successful non-empty write into it.
C9_HappensBefore ==
    /\ \A b \in DOMAIN last.pre.bufs :
         (last.pre.bufs[b].live /\ bufs[b].live)
         => VClockLeq(last.pre.bufs[b].clock, bufs[b].clock)
    /\ \A b \in Buffers : bufs[b].live => VClockLeq(released[b], bufs[b].clock)
    /\ (LastWrite /\ last.res = "Ok" /\ race_on)
       => /\ clocks[last.thread][last.thread]
               = last.pre.clocks[last.thread][last.thread] + 1
          /\ \A t \in Threads :
                TargetAfter.clock[t]
                  = IF clocks[last.thread][t] > TargetBefore.clock[t]
                    THEN clocks[last.thread][t] ELSE TargetBefore.clock[t]
    /\ (LastRead /\ last.n >= 1 /\ race_on)
       => /\ VClockLeq(OwnBefore.clock, clocks[last.thread])
          /\ VClockLeq(last.pre.released[LastEndpoint.readbuf],
                       clocks[last.thread])
          /\ OwnAfter.clock = OwnBefore.clock

\* Two threads have written into a buffer, and a read drains it: the reader
\* now knows of both releases.
C9_Witness ==
    /\ race_on
    /\ LastRead
    /\ last.n >= 1
    /\ OwnAfter.buf = << >>
    /\ \A t \in Threads : last.pre.released[LastEndpoint.readbuf][t] >= 1
    /\ \A t \in Threads : clocks[last.thread][t] >= 1

----------------------------------------------------------------------------
(* C10 *)

\* The bits of type_ that are left when the flags the target recognises are
\* removed: SOCK_STREAM everywhere, SOCK_NONBLOCK and SOCK_CLOEXEC on linux.
Leftover(type_, os) ==
    LET known == IF os = "linux"
                 THEN {SOCK_STREAM, SOCK_NONBLOCK, SOCK_CLOEXEC}
                 ELSE {SOCK_STREAM}
    IN {f \in {SOCK_STREAM, SOCK_DGRAM, SOCK_NONBLOCK, SOCK_CLOEXEC} :
          BitAnd(type_, f) = f /\ f \notin known}

BadDomain == last.domain # AF_UNIX /\ last.domain # AF_LOCAL
BadType == Leftover(last.type_, last.os) # {}
BadProtocol == last.protocol # 0

\* C10 as stated: each of the three conditions brings its own failure, and a
\* failed call creates nothing and writes nothing.
C10_EachConditionItsFailure ==
    last.op = "socketpair"
    => /\ BadDomain => (last.res = "Unsupported" /\ last.msg = "domain")
       /\ BadType => (last.res = "Unsupported" /\ last.msg = "type")
       /\ BadProtocol => (last.res = "Unsupported" /\ last.msg = "protocol")
       /\ last.res = "Unsupported" => NothingChanged

\* C10, amended: the conditions are tried in the order domain, type, protocol
\* and the first that holds names the failure; a failed call creates no
\* buffer, endpoint or table entry and writes nothing to sv.
C10_Validation ==
    last.op = "socketpair"
    => /\ BadDomain => (last.res = "Unsupported" /\ last.msg = "domain")
       /\ (~BadDomain /\ BadType)
          => (last.res = "Unsupported" /\ last.msg = "type")
       /\ (~BadDomain /\ ~BadType /\ BadProtocol)
          => (last.res = "Unsupported" /\ last.msg = "protocol")
       /\ last.res = "Unsupported"
          => /\ NothingChanged
             /\ fds = [n \in {} |-> ""]
             /\ sv = << >>
             /\ Endpoints = {}
             /\ Buffers = {}

\* A call with a good domain and type and a protocol other than 0 fails.
C10_Witness ==
    /\ last.op = "socketpair"
    /\ ~BadDomain
    /\ ~BadType
    /\ BadProtocol
    /\ last.res = "Unsupported"
    /\ last.msg = "protocol"
    /\ sv = << >>

----------------------------------------------------------------------------
(* C11 *)

\* The flags that are set in type_.
FlagsOf(type_) ==
    {f \in {SOCK_STREAM, SOCK_DGRAM, SOCK_NONBLOCK, SOCK_CLOEXEC} :
       BitAnd(type_, f) = f}

\* The last call made the pair, and both endpoints have is_nonblock = nb.
PairMadeWith(nb) ==
    /\ last.res = "Ok"
    /\ Endpoints # DOMAIN last.pre.eps
    /\ \A e \in Endpoints \ DOMAIN last.pre.eps :
          desc_live[e] /\ eps[e].is_nonblock = nb

----------------------------------------------------------------------------
(* C12 *)

\* The endpoints and the buffers that the last call made.
NewEndpoints == Endpoints \ DOMAIN last.pre.eps
NewBuffers == Buffers \ DOMAIN last.pre.bufs

\* C12: every successful socketpair call makes exactly two endpoints and two
\* buffers, both buffers empty with buf_has_writer set; each endpoint writes
\* into the buffer the other one reads from and never into its own, and its
\* peer_fd is the other endpoint; sv holds the descriptor of the endpoint made
\* first and then that of the endpoint made second, in ascending order; no
\* endpoint of an earlier call refers to a buffer of this call, and the
\* earlier endpoints and buffers are as they were.
C12_Wiring ==
    (last.op = "socketpair" /\ last.res = "Ok")
    => /\ Cardinality(NewEndpoints) = 2
       /\ Cardinality(NewBuffers) = 2
       /\ \A b \in NewBuffers :
             /\ bufs[b].live
             /\ bufs[b].buf = << >>
             /\ bufs[b].buf_has_writer
             /\ bufs[b].clock = VClockDefault
       /\ \A e \in NewEndpoints :
             /\ desc_live[e]
             /\ eps[e].readbuf \in NewBuffers
             /\ eps[e].writebuf \in NewBuffers
             /\ eps[e].writebuf # eps[e].readbuf
             /\ \E o \in NewEndpoints \ {e} :
                   /\ eps[e].writebuf = eps[o].readbuf
                   /\ eps[e].peer_fd = o
       /\ \E k \in Pairs :
             /\ NewEndpoints = EndpointsOf(k)
             /\ Len(sv) = 2
             /\ sv[1] \in DOMAIN fds /\ fds[sv[1]] = Name(k, "socketpair_0")
             /\ sv[2] \in DOMAIN fds /\ fds[sv[2]] = Name(k, "socketpair_1")
             /\ sv[1] < sv[2]
       /\ \A e \in Endpoints \ NewEndpoints :
             /\ eps[e] = last.pre.eps[e]
             /\ desc_live[e] = last.pre.desc_live[e]
             /\ eps[e].readbuf \notin NewBuffers
             /\ eps[e].writebuf \notin NewBuffers
       /\ \A b \in Buffers \ NewBuffers : bufs[b] = last.pre.bufs[b]

\* A second call succeeds while endpoints of the first call are there, one of
\* them closed, so that a descriptor number is free again.
C12_Witness ==
    /\ last.op = "socketpair" /\ last.res = "Ok"
    /\ \E e \in Endpoints \ NewEndpoints :
          /\ desc_live[e]
          /\ ~desc_live[eps[e].peer_fd]
          /\ bufs[eps[e].readbuf].live
    /\ sv[2] > sv[1] + 1

----------------------------------------------------------------------------
(* C13 *)

\* C13: close succeeds in every state, also when the peer is gone already.
\* When writebuf upgrades, close clears buf_has_writer of that buffer and
\* leaves its bytes and its clock as they were; every other buffer that is
\* there after the close is as it was before.  When writebuf does not
\* upgrade, every buffer that is there after the close is as it was.  (The
\* closed endpoint's own readbuf goes with the endpoint.)
C13_CloseFrame ==
    /\ \A e \in Endpoints : desc_live[e] => ENABLED close(e)
    /\ last.op = "close"
       => /\ last.res = "Ok"
          /\ ~desc_live[last.fd]
          /\ IF TargetBefore.live
             THEN /\ TargetAfter = [TargetBefore EXCEPT !.buf_has_writer = FALSE]
                  /\ TargetAfter.buf = TargetBefore.buf
                  /\ TargetAfter.clock = TargetBefore.clock
                  /\ \A b \in Buffers \ {LastEndpoint.writebuf} :
                        bufs[b].live => bufs[b] = last.pre.bufs[b]
             ELSE \A b \in Buffers : bufs[b].live => bufs[b] = last.pre.bufs[b]

\* An endpoint is closed while bytes it wrote wait for the peer.
C13_Witness ==
    /\ last.op = "close"
    /\ TargetBefore.live /\ TargetBefore.buf_has_writer
    /\ TargetBefore.buf # << >>
    /\ TargetAfter.buf = TargetBefore.buf

----------------------------------------------------------------------------
(* C14 *)

\* C14: for every buffer that exists, buf_has_writer is set exactly while the
\* endpoint that writes into it has not been closed; a buffer whose flag was
\* clear before a call does not have it set after the call; and no call
\* appends a byte to a buffer whose flag is clear (its bytes after the call
\* are a tail of its bytes before).
C14_WriterFlag ==
    /\ \A b \in Buffers :
          bufs[b].live
          => (bufs[b].buf_has_writer
              <=> \E e \in Endpoints : eps[e].writebuf = b /\ desc_live[e])
    /\ \A b \in DOMAIN last.pre.bufs :
          (last.pre.bufs[b].live /\ ~last.pre.bufs[b].buf_has_writer)
          => /\ ~bufs[b].buf_has_writer
             /\ \E k \in 0..Len(last.pre.bufs[b].buf) :
                   bufs[b].buf = SubSeq(last.pre.bufs[b].buf, k + 1,
                                        Len(last.pre.bufs[b].buf))

\* A read takes bytes from a buffer whose writer was closed before, and the
\* flag stays clear.
C14_Witness ==
    /\ last.op = "read" /\ last.n >= 1
    /\ OwnBefore.live /\ ~OwnBefore.buf_has_writer
    /\ OwnAfter.live /\ ~OwnAfter.buf_has_writer
    /\ ~desc_live[LastEndpoint.peer_fd]

----------------------------------------------------------------------------
(* C15 *)

\* How often the last call called check_and_update_readiness.
Reevaluations ==
    Cardinality({i \in 1..Len(last.borrows) :
                   last.borrows[i].kind = "check_and_update_readiness"})

\* The last call moved at least one byte, or was a close.
Mutated ==
    \/ LastRead /\ last.res = "Ok" /\ last.n >= 1
    \/ LastWrite /\ last.res = "Ok" /\ last.n >= 1
    \/ last.op = "close"

\* C15: a read that returns at least one byte, a write that appends at least
\* one byte and a close each re-evaluate the readiness of the peer exactly
\* once when peer_fd upgrades, and not at all when it does not.  The events
\* of that evaluation are those of the state after the mutation: after a
\* write the peer has epollin, after a read the peer has epollout, after a
\* close the peer has epollrdhup; after a read or a write they are the events
\* a poll of the peer gives when the call has returned.
C15_Notification ==
    Mutated
    => IF peer_fd_upgrade(desc_live, LastEndpoint.peer_fd)
       THEN /\ Len(last.notif) = 1
            /\ Reevaluations = 1
            /\ last.notif[1].fd = LastEndpoint.peer_fd
            /\ last.op = "write" => last.notif[1].events.epollin
            /\ last.op = "read" => last.notif[1].events.epollout
            /\ last.op = "close" => last.notif[1].events.epollrdhup
            /\ last.op \in {"read", "write"}
               => last.notif[1].events =
                    get_epoll_ready_events(LastEndpoint.peer_fd, eps, bufs,
                                           desc_live)
       ELSE /\ last.notif = << >>
            /\ Reevaluations = 0

\* A write into an empty buffer: the peer was not readable before, and the
\* notification says that it is.
C15_Witness ==
    /\ LastWrite /\ last.n >= 1
    /\ TargetBefore.buf = << >>
    /\ ~get_epoll_ready_events(LastEndpoint.peer_fd, last.pre.eps,
                               last.pre.bufs, last.pre.desc_live).epollin
    /\ Len(last.notif) = 1
    /\ last.notif[1].events.epollin

----------------------------------------------------------------------------
(* C16 *)

\* C16: in read, write and close the RefMut of a buffer is dropped before
\* check_and_update_readiness is called on the peer, so the evaluation of
\* the peer, which borrows the peer's readbuf and writebuf, never borrows a
\* buffer that is mutably borrowed; no handler makes a borrow that panics.
C16_BorrowDiscipline ==
    last.op \in {"read", "write", "close", "readiness"}
    => /\ ~held_at_reevaluation(last.borrows, {})
       /\ ~already_borrowed(last.borrows, << >>, {})

\* A read moves bytes; the evaluation of the peer then borrows the very buffer
\* that the read had borrowed mutably.
C16_Witness ==
    /\ last.op = "read" /\ last.n >= 1
    /\ \E i, j \in 1..Len(last.borrows) :
          /\ i < j
          /\ last.borrows[i] = DropRefMut(LastEndpoint.readbuf)
          /\ last.borrows[j] = Borrow(LastEndpoint.readbuf)

----------------------------------------------------------------------------
(* C17 *)

IsPrefix(s, t) == Len(s) <= Len(t) /\ s = SubSeq(t, 1, Len(s))

\* C17: for every buffer, the bytes that the reads of its reading endpoint
\* have returned, one after the other, are a prefix of the accepted parts of
\* the writes of its writing endpoint, one after the other; and while the
\* buffer exists its content is exactly the rest: what was accepted is what
\* was returned followed by what the buffer holds.
C17_StreamIntegrity ==
    hist.on
    => \A b \in Buffers :
          /\ IsPrefix(hist.recvd[b], hist.sent[b])
          /\ bufs[b].live => hist.sent[b] = hist.recvd[b] \o bufs[b].buf

\* Writes and reads have alternated on one direction: a read has just returned
\* bytes, two bytes have been returned in all, and an accepted byte still
\* waits in the buffer.
C17_Witness ==
    /\ hist.on
    /\ last.op = "read" /\ last.n >= 1
    /\ Len(hist.recvd[LastEndpoint.readbuf]) >= 2
    /\ Len(hist.recvd[LastEndpoint.readbuf]) > last.n
    /\ OwnAfter.buf # << >>

----------------------------------------------------------------------------
(* C18 *)

\* C18: once a read of at least one byte on an endpoint has returned 0 at
\* end-of-file, every later read of at least one byte on it returns 0; once a
\* write on an endpoint has returned BrokenPipe, every later non-empty write
\* on it returns BrokenPipe.  In every state reached afterwards, whatever was
\* done in between, the endpoint's buffer is still empty without a writer,
\* and its writebuf still does not upgrade.
C18_Sticky ==
    hist.on
    => /\ (LastRead /\ last.seen_eof)
          => last.res = "Ok" /\ last.n = 0 /\ last.data = << >>
       /\ (LastWrite /\ last.seen_pipe)
          => last.res = "BrokenPipe" /\ last.n = 0
       /\ \A e \in Endpoints :
             /\ (desc_live[e] /\ hist.eof[e])
                => /\ bufs[eps[e].readbuf].buf = << >>
                   /\ ~bufs[eps[e].readbuf].buf_has_writer
             /\ (desc_live[e] /\ hist.pipe[e])
                => ~writebuf_upgrade(bufs, eps[e].writebuf)

\* An endpoint whose peer is closed has seen BrokenPipe and end-of-file, and
\* reads again: a request longer than the first one.
C18_Witness ==
    /\ hist.on
    /\ LastRead /\ last.len > 1
    /\ last.seen_eof
    /\ hist.pipe[last.fd]
    /\ last.res = "Ok" /\ last.n = 0

----------------------------------------------------------------------------
(* C19 *)

\* The events of every readiness evaluation the last call made: the poll
\* itself, or the evaluation of the peer that a read, write or close made.
LastEvaluations ==
    (IF last.op = "readiness" THEN {last.events} ELSE {})
    \cup {last.notif[i].events : i \in 1..Len(last.notif)}

\* C19 as claimed: in every readiness evaluation, the one made from inside
\* the peer's close included, peer_fd upgrades iff writebuf upgrades, so that
\* no evaluation gives epollrdhup (peer_fd does not upgrade) together with
\* epollout (writebuf upgrades and has space).
C19_NeverHalfClosedAndWritable ==
    \A ev \in LastEvaluations : ~(ev.epollrdhup /\ ev.epollout)

\* C19, amended: between calls, for every open endpoint, peer_fd upgrades iff
\* writebuf upgrades.  An evaluation made by a poll or from a read or a write
\* never gives epollrdhup with epollout, and an endpoint that a poll gives
\* epollout completes a non-empty write without BrokenPipe.  The evaluation
\* made from inside the peer's close is different: peer_fd does not upgrade
\* any more (epollrdhup), while writebuf, the closing endpoint's readbuf,
\* still does, so epollout is given exactly when that buffer has space; once
\* the close has returned the writebuf does not upgrade either.
C19_Resolvability ==
    /\ \A e \in Endpoints :
          desc_live[e]
          => (peer_fd_upgrade(desc_live, eps[e].peer_fd)
              <=> writebuf_upgrade(bufs, eps[e].writebuf))
    /\ last.op \in {"readiness", "read", "write"}
       => \A ev \in LastEvaluations : ~(ev.epollrdhup /\ ev.epollout)
    /\ (last.op = "readiness" /\ last.events.epollout)
       => write_result(eps[last.fd], bufs, 1).res = "Ok"
    /\ (last.op = "close" /\ last.notif # << >>)
       => /\ last.notif[1].events.epollrdhup
          /\ OwnBefore.live
          /\ last.notif[1].events.epollout <=> available_space(OwnBefore) # 0
          /\ ~writebuf_upgrade(bufs, eps[last.notif[1].fd].writebuf)

\* A close whose notification tells the peer that it is half-closed and
\* writable at once.
C19_Witness ==
    /\ last.op = "close"
    /\ Len(last.notif) = 1
    /\ last.notif[1].events.epollrdhup
    /\ last.notif[1].events.epollout
    /\ write_result(eps[last.notif[1].fd], bufs, 1).res = "BrokenPipe"

----------------------------------------------------------------------------
(* C20 *)

\* C20: a read or a write that moves no byte (a request of length zero,
\* WouldBlock, BrokenPipe, the "unsupported" failure, end-of-file) leaves the
\* bytes, the clock and buf_has_writer of every buffer and the clock of every
\* thread as they were, and does not re-evaluate the peer; so a write that
\* fails with WouldBlock joins no clock into the buffer and a read at
\* end-of-file acquires none.
C20_NoEffectWithoutTransfer ==
    (last.op \in {"read", "write"} /\ last.n = 0)
    => /\ last.res \in {"Ok", "WouldBlock", "BrokenPipe", "Unsupported"}
       /\ bufs = last.pre.bufs
       /\ clocks = last.pre.clocks
       /\ released = last.pre.released
       /\ NothingChanged
       /\ last.notif = << >>
       /\ Reevaluations = 0

\* A write fails with WouldBlock on a full buffer while the detector runs and
\* the peer is there to be notified: the clock the thread would release is
\* not in the buffer's clock.
C20_Witness ==
    /\ race_on
    /\ last.op = "write" /\ last.res = "WouldBlock"
    /\ desc_live[LastEndpoint.peer_fd]
    /\ ~VClockLeq(release_clock(clocks, last.thread), TargetAfter.clock)
    /\ TargetAfter = TargetBefore

====
